---------------------------- MODULE Spec2Model ----------------------------
(***************************************************************************)
(* A model of rodio's src/conversions/sample.rs:                           *)
(*   - the Sample trait as implemented for u16, i16 and f32 (lerp,         *)
(*     amplify, to_f32, saturating_add, zero_value), and                   *)
(*   - the DataConverter iterator adapter.                                 *)
(*                                                                         *)
(* TLC's integers are 32 bits wide, while lerp takes u32 arguments and     *)
(* computes in i64.  Values wider than 31 bits are therefore kept as       *)
(* "wide" naturals [hi, lo] standing for hi * 2^30 + lo, with signs kept   *)
(* apart, and the i64 arithmetic of lerp is carried out on them.           *)
(***************************************************************************)
EXTENDS Integers, Sequences, FiniteSets

VARIABLES
    \* ---- one call of a Sample operation (specification SpecSample) ----
    call,       \* the operation called and its arguments
    ret,        \* what the call returned (or how it failed)
    pc,         \* "call": not yet run, "zeroed": zero_value() returned, "done"
                \* ("idle" throughout Spec)
    \* ---- a DataConverter and its source (specification Spec) ----
    items,      \* the samples the source iterator was built over
    kind,       \* the source's kind: "exact" (ExactSizeIterator) or "filtered"
    conv,       \* the pair of representations <<I, O>> of the adapter
    input,      \* DataConverter.input: the source's position (items consumed)
    phase,      \* "source": not wrapped yet, "adapter", "recovered" (into_inner)
    delivered,  \* history: every Some(_) handed out, in order
    srcCalls,   \* history: calls of the source's next()
    ops,        \* history: calls of DataConverter::next (.next) and direct pulls
                \* on the source (.raw)
    last        \* the last operation and what it returned

sampleVars == <<call, ret, pc>>
convVars == <<items, kind, conv, input, phase, delivered, srcCalls, ops, last>>
vars == <<call, ret, pc, items, kind, conv, input, phase, delivered, srcCalls, ops, last>>

---------------------------------------------------------------------------
(* Ranges of the integer representations.                                  *)

U16_MIN == 0
U16_MAX == 65535
I16_MIN == -32768
I16_MAX == 32767

Min(x, y) == IF x < y THEN x ELSE y
Max(x, y) == IF x < y THEN y ELSE x
Abs(x) == IF x < 0 THEN -x ELSE x

---------------------------------------------------------------------------
(* Wide naturals: [hi, lo] is hi * 2^30 + lo with 0 <= lo < 2^30.          *)

B15 == 2^15
B30 == 2^30

WNorm(h, l) == [hi |-> h + l \div B30, lo |-> l % B30]
W(n) == WNorm(0, n)
WZero == W(0)
\* a u32 given by its two 16-bit halves
U32(h16, l16) == WNorm(h16 \div (2^14), (h16 % (2^14)) * (2^16) + l16)
U32_MAX == U32(65535, 65535)

WLess(a, b) == a.hi < b.hi \/ (a.hi = b.hi /\ a.lo < b.lo)
WLeq(a, b) == ~WLess(b, a)
WAdd(a, b) == WNorm(a.hi + b.hi, a.lo + b.lo)
\* a - b for b <= a
WSub(a, b) ==
    IF a.lo >= b.lo THEN [hi |-> a.hi - b.hi, lo |-> a.lo - b.lo]
    ELSE [hi |-> a.hi - b.hi - 1, lo |-> a.lo + B30 - b.lo]
WAbsDiff(a, b) == IF WLess(a, b) THEN WSub(b, a) ELSE WSub(a, b)
WBit(a, i) == IF i < 30 THEN (a.lo \div (2^i)) % 2 ELSE (a.hi \div (2^(i - 30))) % 2

RECURSIVE NatBits(_)
NatBits(n) == IF n = 0 THEN 0 ELSE 1 + NatBits(n \div 2)
\* the number of bits of a (0 for 0)
WBitLen(a) == IF a.hi > 0 THEN 30 + NatBits(a.hi) ELSE NatBits(a.lo)

\* m * n for a small m (0 <= m <= 2^16) and a u32 n, by 15-bit pieces of n
WMul(m, n) ==
    LET n0 == n.lo % B15
        n1 == n.lo \div B15
        t0 == m * n0
        t1 == m * n1
        t2 == m * n.hi
    IN  WNorm((t0 \div B30) + (t1 \div B15) + t2, (t0 % B30) + (t1 % B15) * B15)

\* 16 * a + digit, and the j-th hexadecimal digit of a
WShl4(a, digit) == [hi |-> 16 * a.hi + a.lo \div (2^26), lo |-> 16 * (a.lo % (2^26)) + digit]
WDigit(a, j) == WBit(a, 4 * j) + 2 * WBit(a, 4 * j + 1)
                + 4 * WBit(a, 4 * j + 2) + 8 * WBit(a, 4 * j + 3)

\* quotient and remainder of p by a u32 d > 0: long division, one
\* hexadecimal digit of p at a time
RECURSIVE WDivStep(_, _, _, _, _)
WDivStep(p, d, j, q, r) ==
    IF j < 0 THEN [q |-> q, r |-> r]
    ELSE LET r1 == WShl4(r, WDigit(p, j))
             digit == Cardinality({k \in 1 .. 15 : WLeq(WMul(k, d), r1)})
         IN  IF digit = 0
             THEN WDivStep(p, d, j - 1, WShl4(q, 0), r1)
             ELSE WDivStep(p, d, j - 1, WShl4(q, digit), WSub(r1, WMul(digit, d)))
WDivMod(p, d) == WDivStep(p, d, (WBitLen(p) + 3) \div 4 - 1, WZero, WZero)


---------------------------------------------------------------------------
(* f32 values.  A finite value is m * 2^e with m odd (or m = 0, e = 0);    *)
(* every value met here has fewer than 2^24 in |m| after rounding and an   *)
(* exponent far from the ends of the f32 range.                            *)

RECURSIVE F32(_, _)
F32(m, e) ==
    IF m = 0 THEN [cls |-> "fin", m |-> 0, e |-> 0]
    ELSE IF m % 2 = 0 THEN F32(m \div 2, e + 1)
    ELSE [cls |-> "fin", m |-> m, e |-> e]
NaN == [cls |-> "nan", m |-> 0, e |-> 0]
PosInf == [cls |-> "inf", m |-> 1, e |-> 0]
NegInf == [cls |-> "inf", m |-> -1, e |-> 0]
F32Zero == F32(0, 0)

\* the f32 nearest to m * 2^e (ties to even): 24 bits of significand
RoundF32(m, e) ==
    IF Abs(m) < 2^24 THEN F32(m, e)
    ELSE LET s == NatBits(Abs(m)) - 24
             q == Abs(m) \div (2^s)
             r == Abs(m) % (2^s)
             half == 2^(s - 1)
             up == r > half \/ (r = half /\ q % 2 = 1)
             q1 == IF up THEN q + 1 ELSE q
         IN  F32(IF m < 0 THEN -q1 ELSE q1, e + s)

\* `n as f32` for a 16-bit integer n: exact
as_f32(n) == F32(n, 0)

\* the integer an integer-valued finite f32 stands for
int_of(x) == x.m * (2^(x.e))

\* x * y in f32
mul_f32(x, y) ==
    IF x.cls = "nan" \/ y.cls = "nan" THEN NaN
    ELSE IF x.cls = "inf" \/ y.cls = "inf" THEN
        IF x.m = 0 \/ y.m = 0 THEN NaN
        ELSE IF (x.m < 0) = (y.m < 0) THEN PosInf ELSE NegInf
    ELSE RoundF32(x.m * y.m, x.e + y.e)

\* cast_int as it would be were the cast to round to the nearest integer
cast_int_round(x, lo, hi) ==
    IF x.cls = "nan" THEN 0
    ELSE IF x.cls = "inf" THEN (IF x.m < 0 THEN lo ELSE hi)
    ELSE LET mag == Abs(x.m)
             t == IF x.e >= 0
                  THEN (IF NatBits(mag) + x.e > 30 THEN 2^30 ELSE mag * (2^(x.e)))
                  ELSE (IF -x.e > 30 THEN 0
                        ELSE (mag + 2^(-x.e - 1)) \div (2^(-x.e)))
             v == IF x.m < 0 THEN -t ELSE t
         IN  IF v < lo THEN lo ELSE IF v > hi THEN hi ELSE v

\* `x as <int>` for an integer type of range lo..hi: the fractional part is
\* dropped, a value out of range saturates, NaN gives 0
cast_int(x, lo, hi) ==
    IF x.cls = "nan" THEN 0
    ELSE IF x.cls = "inf" THEN (IF x.m < 0 THEN lo ELSE hi)
    ELSE LET mag == Abs(x.m)
             t == IF x.e >= 0
                  THEN (IF NatBits(mag) + x.e > 30 THEN 2^30 ELSE mag * (2^(x.e)))
                  ELSE (IF -x.e > 30 THEN 0 ELSE mag \div (2^(-x.e)))
             v == IF x.m < 0 THEN -t ELSE t
         IN  IF v < lo THEN lo ELSE IF v > hi THEN hi ELSE v

---------------------------------------------------------------------------
(* impl Sample for u16 / i16 / f32                                         *)

\* the width of lerp's intermediate type, i64
WideBits == 64

\* FitsWide as it would be were the interpolation computed in i32
FitsWide_i32(p) == WBitLen(p) <= 31

\* whether the magnitude p fits the signed intermediate type
FitsWide(p) == WBitLen(p) <= WideBits - 1

\* lerp_d as it would be with the difference taken in 16 bits, before widening
lerp_d_narrow(first, second, numerator, denominator) ==
    LET diff == ((second - first + 32768) % 65536) - 32768
        prod == WMul(Abs(diff), numerator)
    IN  IF denominator = WZero THEN [tag |-> "div_zero", val |-> 0]
        ELSE LET q == WDivMod(prod, denominator).q
             IN  IF q.hi > 0 THEN [tag |-> "wide", val |-> 0]
                 ELSE [tag |-> "small",
                       val |-> IF diff < 0 THEN first - q.lo ELSE first + q.lo]

\* lerp_d as it would be with the ratio divided first:
\* first + (second - first) * (numerator / denominator)
lerp_d_ratio_first(first, second, numerator, denominator) ==
    LET diff == second - first
    IN  IF denominator = WZero THEN [tag |-> "div_zero", val |-> 0]
        ELSE LET ratio == WDivMod(numerator, denominator).q
                 prod == WMul(Abs(diff), ratio)
             IN  IF prod.hi > 0 THEN [tag |-> "wide", val |-> 0]
                 ELSE [tag |-> "small",
                       val |-> IF diff < 0 THEN first - prod.lo ELSE first + prod.lo]

\* first as i64 + (second as i64 - first as i64) * numerator as i64
\*                                              / denominator as i64
\* numerator and denominator are u32 values (wide).  The product is formed
\* first ("overflow" should it not fit the intermediate type: a panic in a
\* debug build, a wrapped value in a release build), then divided ("div_zero"
\* for a zero denominator, a panic).  The sum with first cannot overflow once
\* the product fits.  The result is "small" with its value, or "wide" when
\* the quotient is 2^30 or more (and the sum so outside every 16-bit range,
\* |first| being below 2^16).
lerp_d(first, second, numerator, denominator) ==
    LET diff == second - first
        prod == WMul(Abs(diff), numerator)
    IN  IF ~FitsWide(prod) THEN [tag |-> "overflow", val |-> 0]
        ELSE IF denominator = WZero THEN [tag |-> "div_zero", val |-> 0]
        ELSE LET q == WDivMod(prod, denominator).q  \* `/` truncates toward zero
             IN  IF q.hi > 0 THEN [tag |-> "wide", val |-> 0]
                 ELSE [tag |-> "small",
                       val |-> IF diff < 0 THEN first - q.lo ELSE first + q.lo]

\* try_from_expect as it would be were the narrowing to clamp
try_from_expect_clamp(d, lo, hi) ==
    IF d.tag \in {"overflow", "div_zero"} THEN [tag |-> d.tag, val |-> 0]
    ELSE IF d.tag = "small"
         THEN [tag |-> "ok", val |-> Max(lo, Min(hi, d.val))]
         ELSE [tag |-> "ok", val |-> hi]

\* <int>::try_from(d).expect(..) for an integer type of range lo..hi
try_from_expect(d, lo, hi) ==
    IF d.tag \in {"overflow", "div_zero"} THEN [tag |-> d.tag, val |-> 0]
    ELSE IF d.tag = "small" /\ lo <= d.val /\ d.val <= hi
         THEN [tag |-> "ok", val |-> d.val]
         ELSE [tag |-> "panic", val |-> 0]

lerp_u16(first, second, numerator, denominator) ==
    try_from_expect(lerp_d(first, second, numerator, denominator), U16_MIN, U16_MAX)

lerp_i16(first, second, numerator, denominator) ==
    try_from_expect(lerp_d(first, second, numerator, denominator), I16_MIN, I16_MAX)

amplify_u16(self, value) == cast_int(mul_f32(as_f32(self), value), U16_MIN, U16_MAX)

amplify_i16(self, value) == cast_int(mul_f32(as_f32(self), value), I16_MIN, I16_MAX)

\* (self as f32 - 32768.0) / 32768.0: the difference of two integers below
\* 2^24 is exact, and the division by 2^15 only lowers the exponent
to_f32_u16(self) == RoundF32(int_of(as_f32(self)) - 32768, -15)

\* self as f32 / 32768.0
to_f32_i16(self) == RoundF32(int_of(as_f32(self)), -15)

to_f32_f32(self) == self

\* sat_add as it would be were the sum to wrap
sat_add_wrapping(self, other, lo, hi) ==
    ((self + other - lo) % (hi - lo + 1)) + lo

\* the integer type's saturating_add on range lo..hi: the sum wraps in 16
\* bits, and an overflow is replaced by the bound on the side of `other`
sat_add(self, other, lo, hi) ==
    LET span == hi - lo + 1
        wrapped == ((self + other - lo) % span) + lo
    IN  IF wrapped = self + other THEN wrapped
        ELSE IF other < 0 THEN lo ELSE hi

saturating_add_u16(self, other) == sat_add(self, other, U16_MIN, U16_MAX)

saturating_add_i16(self, other) == sat_add(self, other, I16_MIN, I16_MAX)

\* zero_value_u16 as the trait's documentation states it
zero_value_u16_doc == U16_MAX \div 2

zero_value_u16 == 32768

zero_value_i16 == 0

zero_value_f32 == F32Zero


---------------------------------------------------------------------------
(* Specification SpecSample: one call of a Sample operation on arguments   *)
(* drawn from the sets below.                                              *)

\* how far from the ends of a range (and from zero) the arguments reach
NearEdge == 1
\* the largest right shift of an amplification factor's mantissa
MaxShift == 3

Samples_u16 == (U16_MIN .. U16_MIN + NearEdge) \cup {12, 31, 32768}
               \cup (U16_MAX - NearEdge .. U16_MAX)
Samples_i16 == (I16_MIN .. I16_MIN + NearEdge) \cup {-1, 0, 12, 31}
               \cup (I16_MAX - NearEdge .. I16_MAX)
MinOf(ty) == IF ty = "u16" THEN U16_MIN ELSE I16_MIN
MaxOf(ty) == IF ty = "u16" THEN U16_MAX ELSE I16_MAX

\* u32 arguments: around 0, around 2^15 and 2^16, around 2^31, up to u32::MAX
Ratios == {W(n) : n \in 0 .. NearEdge + 1}
          \cup {W(32768), W(32769), W(65536), U32(32768, 0)}
          \cup {WSub(U32_MAX, W(k)) : k \in 0 .. NearEdge}

\* amplification factors: m * 2^(-k), and the non-finite values
Factors == {F32(m, -k) : m \in {-3, -1, 0, 1, 3, 5, 257, 4097}, k \in 0 .. MaxShift}
           \cup {F32(1, 1), NaN, PosInf, NegInf}

NoF32 == F32Zero
NoRet == [tag |-> "none", val |-> 0, f |-> NoF32]
NoCall == [op |-> "none", ty |-> "none", a |-> 0, b |-> 0,
           num |-> WZero, den |-> WZero, value |-> NoF32]

Calls ==
    {[NoCall EXCEPT !.op = "lerp", !.ty = ty, !.a = a, !.b = b, !.num = n, !.den = d] :
        ty \in {"u16"}, a \in Samples_u16, b \in Samples_u16, n \in Ratios, d \in Ratios}
    \cup
    {[NoCall EXCEPT !.op = "lerp", !.ty = ty, !.a = a, !.b = b, !.num = n, !.den = d] :
        ty \in {"i16"}, a \in Samples_i16, b \in Samples_i16, n \in Ratios, d \in Ratios}
    \cup
    {[NoCall EXCEPT !.op = "amplify", !.ty = "u16", !.a = a, !.value = v] :
        a \in Samples_u16, v \in Factors}
    \cup
    {[NoCall EXCEPT !.op = "amplify", !.ty = "i16", !.a = a, !.value = v] :
        a \in Samples_i16, v \in Factors}
    \cup
    {[NoCall EXCEPT !.op = "saturating_add", !.ty = "u16", !.a = a, !.b = b] :
        a \in Samples_u16, b \in Samples_u16}
    \cup
    {[NoCall EXCEPT !.op = "saturating_add", !.ty = "i16", !.a = a, !.b = b] :
        a \in Samples_i16, b \in Samples_i16}
    \cup
    {[NoCall EXCEPT !.op = "to_f32", !.ty = "u16", !.a = a] : a \in Samples_u16}
    \cup
    {[NoCall EXCEPT !.op = "to_f32", !.ty = "i16", !.a = a] : a \in Samples_i16}
    \cup
    {[NoCall EXCEPT !.op = "to_f32", !.ty = "f32", !.value = v] : v \in Factors}
    \cup
    {[NoCall EXCEPT !.op = "zero_value", !.ty = ty] : ty \in {"u16", "i16", "f32"}}

NoLast == [op |-> "none", some |-> FALSE, val |-> 0, f |-> NoF32, lower |-> 0, upper |-> 0]

IdleConv ==
    /\ items = <<>> /\ kind = "exact" /\ conv = <<"i16", "i16">>
    /\ input = 0 /\ phase = "source" /\ delivered = <<>>
    /\ srcCalls = 0 /\ ops = [next |-> 0, raw |-> 0]
    /\ last = NoLast

InitSample ==
    /\ call \in Calls
    /\ ret = NoRet
    /\ pc = "call"
    /\ IdleConv

Returns(r) == /\ ret' = r
              /\ pc' = "done"
              /\ UNCHANGED <<call, convVars>>

Lerp_u16 ==
    /\ pc = "call" /\ call.op = "lerp" /\ call.ty = "u16"
    /\ LET r == lerp_u16(call.a, call.b, call.num, call.den)
       IN  Returns([tag |-> r.tag, val |-> r.val, f |-> NoF32])

Lerp_i16 ==
    /\ pc = "call" /\ call.op = "lerp" /\ call.ty = "i16"
    /\ LET r == lerp_i16(call.a, call.b, call.num, call.den)
       IN  Returns([tag |-> r.tag, val |-> r.val, f |-> NoF32])

Amplify_u16 ==
    /\ pc = "call" /\ call.op = "amplify" /\ call.ty = "u16"
    /\ Returns([tag |-> "ok", val |-> amplify_u16(call.a, call.value), f |-> NoF32])

Amplify_i16 ==
    /\ pc = "call" /\ call.op = "amplify" /\ call.ty = "i16"
    /\ Returns([tag |-> "ok", val |-> amplify_i16(call.a, call.value), f |-> NoF32])

SaturatingAdd_u16 ==
    /\ pc = "call" /\ call.op = "saturating_add" /\ call.ty = "u16"
    /\ Returns([tag |-> "ok", val |-> saturating_add_u16(call.a, call.b), f |-> NoF32])

SaturatingAdd_i16 ==
    /\ pc = "call" /\ call.op = "saturating_add" /\ call.ty = "i16"
    /\ Returns([tag |-> "ok", val |-> saturating_add_i16(call.a, call.b), f |-> NoF32])

\* zero_value() returns; its value is then handed to to_f32
ZeroValue ==
    /\ pc = "call" /\ call.op = "zero_value"
    /\ ret' = CASE call.ty = "u16" -> [tag |-> "ok", val |-> zero_value_u16, f |-> NoF32]
                [] call.ty = "i16" -> [tag |-> "ok", val |-> zero_value_i16, f |-> NoF32]
                [] call.ty = "f32" -> [tag |-> "ok", val |-> 0, f |-> zero_value_f32]
    /\ pc' = "zeroed"
    /\ UNCHANGED <<call, convVars>>

\* to_f32 of the argument, or of the value zero_value() returned
ToF32 ==
    /\ \/ pc = "call" /\ call.op = "to_f32"
       \/ pc = "zeroed"
    /\ LET x == IF pc = "zeroed" THEN ret.val ELSE call.a
           fx == IF pc = "zeroed" THEN ret.f ELSE call.value
       IN  ret' = [tag |-> "ok", val |-> x,
                   f |-> CASE call.ty = "u16" -> to_f32_u16(x)
                           [] call.ty = "i16" -> to_f32_i16(x)
                           [] call.ty = "f32" -> to_f32_f32(fx)]
    /\ pc' = "done"
    /\ UNCHANGED <<call, convVars>>

NextSample ==
    \/ Lerp_u16 \/ Lerp_i16
    \/ Amplify_u16 \/ Amplify_i16
    \/ SaturatingAdd_u16 \/ SaturatingAdd_i16
    \/ ZeroValue \/ ToF32

SpecSample == InitSample /\ [][NextSample]_vars


---------------------------------------------------------------------------
(* Properties of lerp (SpecSample).                                        *)

LerpDone == pc = "done" /\ call.op = "lerp"
\* 0 <= numerator / denominator <= 1, and numerator / denominator > 1
RatioInUnit == call.den # WZero /\ WLeq(call.num, call.den)
RatioAboveOne == call.den # WZero /\ WLess(call.den, call.num)

\* |second - first| * numerator, the magnitude of the exact numerator of the
\* interpolation's offset from first
OffsetTimesDen == WMul(Abs(call.b - call.a), call.num)
\* |x - first| * denominator for a result x
ResultTimesDen(x) == WMul(Abs(x - call.a), call.den)
\* x lies on the side of first where second lies (or is first)
SameSide(x) == \/ x = call.a
               \/ (x > call.a /\ call.b > call.a)
               \/ (x < call.a /\ call.b < call.a)
\* |x * denominator - (first * denominator + (second - first) * numerator)|
LerpError(x) == IF SameSide(x) THEN WAbsDiff(ResultTimesDen(x), OffsetTimesDen)
                ELSE WAdd(ResultTimesDen(x), OffsetTimesDen)
\* x is first + (second - first) * numerator / denominator with the quotient
\* truncated toward zero
IsTruncatedLerp(x) == /\ SameSide(x)
                      /\ WLeq(ResultTimesDen(x), OffsetTimesDen)
                      /\ WLess(WSub(OffsetTimesDen, ResultTimesDen(x)), call.den)
\* the truncated interpolation lies above the type's maximum / below its minimum
LerpExceedsMax == /\ call.b > call.a
                  /\ WLeq(WMul(MaxOf(call.ty) - call.a + 1, call.den), OffsetTimesDen)
LerpBelowMin == /\ call.b < call.a
                /\ WLeq(WMul(call.a - MinOf(call.ty) + 1, call.den), OffsetTimesDen)

\* C3: for i16 and u16, with denominator > 0 and numerator <= denominator,
\* lerp does not fail, its i64 intermediate does not overflow, and the result
\* lies between min(first, second) and max(first, second), so inside the
\* type's range, also between the type's minimum and maximum.
C3_LerpInRange ==
    (LerpDone /\ RatioInUnit) =>
        /\ ret.tag = "ok"
        /\ Min(call.a, call.b) <= ret.val /\ ret.val <= Max(call.a, call.b)
        /\ MinOf(call.ty) <= ret.val /\ ret.val <= MaxOf(call.ty)

C3_Witness ==
    /\ LerpDone /\ call.ty = "i16"
    /\ call.a = I16_MIN /\ call.b = I16_MAX
    /\ call.num = WSub(U32_MAX, W(1)) /\ call.den = U32_MAX
    /\ ret = [tag |-> "ok", val |-> I16_MAX - 1, f |-> NoF32]

\* C4 as stated: for i16 and u16, lerp called with numerator > denominator > 0
\* fails fatally.
C4_Original ==
    (LerpDone /\ RatioAboveOne) => ret.tag = "panic"

\* C4 as amended: for i16 and u16, lerp called with numerator > denominator > 0
\* fails fatally exactly when first + (second - first) * numerator /
\* denominator (quotient truncated toward zero) lies above the type's maximum
\* or below its minimum; otherwise it returns that value, neither clamped nor
\* wrapped.
C4_LerpFailsWhenOutOfRange ==
    (LerpDone /\ RatioAboveOne) =>
        /\ ret.tag \in {"ok", "panic"}
        /\ ret.tag = "panic" <=> (LerpExceedsMax \/ LerpBelowMin)
        /\ ret.tag = "ok" => IsTruncatedLerp(ret.val)

C4_Witness ==
    /\ LerpDone /\ call.ty = "i16" /\ RatioAboveOne
    /\ call.a = 0 /\ call.b = -1
    /\ call.num = W(32769) /\ call.den = W(1)
    /\ LerpBelowMin
    /\ ret.tag = "panic"

\* C5: for i16 and u16 and every denominator d > 0, lerp(a, b, 0, d) = a and
\* lerp(a, b, d, d) = b, exactly and without failing.
C5_LerpEndpoints ==
    (LerpDone /\ call.den # WZero) =>
        /\ call.num = WZero => ret = [tag |-> "ok", val |-> call.a, f |-> NoF32]
        /\ call.num = call.den => ret = [tag |-> "ok", val |-> call.b, f |-> NoF32]

C5_Witness ==
    /\ LerpDone /\ call.ty = "i16"
    /\ call.a = I16_MAX /\ call.b = I16_MIN
    /\ call.num = U32_MAX /\ call.den = U32_MAX
    /\ ret = [tag |-> "ok", val |-> I16_MIN, f |-> NoF32]

\* C6: for i16 and u16, with denominator > 0 and numerator <= denominator, the
\* result x of lerp satisfies
\* |x * denominator - (first * denominator + (second - first) * numerator)|
\*   < denominator.
C6_LerpAccuracy ==
    (LerpDone /\ RatioInUnit) =>
        /\ ret.tag = "ok"
        /\ WLess(LerpError(ret.val), call.den)

\* a call whose exact interpolation is no integer
C6_Witness ==
    /\ LerpDone /\ RatioInUnit /\ call.ty = "u16"
    /\ call.a = U16_MAX /\ call.b = 0
    /\ call.num = W(1) /\ call.den = U32_MAX
    /\ ret.tag = "ok"
    /\ LerpError(ret.val) # WZero


---------------------------------------------------------------------------
(* Properties of saturating_add, zero_value / to_f32 and amplify           *)
(* (SpecSample).                                                           *)

\* C7: for i16 and u16, saturating_add(a, b) is the sum a + b clamped to the
\* type's range: it never wraps; the maximum plus a positive value is the
\* maximum, and for i16 the minimum plus a negative value is the minimum.
C7_SaturatingAddClamps ==
    (pc = "done" /\ call.op = "saturating_add") =>
        /\ ret.tag = "ok"
        /\ ret.val = Max(MinOf(call.ty), Min(MaxOf(call.ty), call.a + call.b))
        /\ (call.a = MaxOf(call.ty) /\ call.b > 0) => ret.val = MaxOf(call.ty)
        /\ (call.a = MinOf(call.ty) /\ call.b < 0) => ret.val = MinOf(call.ty)

C7_Witness ==
    /\ pc = "done" /\ call.op = "saturating_add" /\ call.ty = "i16"
    /\ call.a = I16_MIN /\ call.b = -1
    /\ ret.val = I16_MIN

AmplifyDone == pc = "done" /\ call.op = "amplify"
\* the f32 product amplify narrows
Product == mul_f32(as_f32(call.a), call.value)
\* a finite f32 x against an integer n (|n| <= 2^16)
FLeq(x, n) == IF x.e >= 0
              THEN (IF NatBits(Abs(x.m)) + x.e > 30 THEN x.m < 0 ELSE x.m * (2^(x.e)) <= n)
              ELSE x.m <= n * (2^(-x.e))
FGeq(x, n) == IF x.e >= 0
              THEN (IF NatBits(Abs(x.m)) + x.e > 30 THEN x.m > 0 ELSE x.m * (2^(x.e)) >= n)
              ELSE x.m >= n * (2^(-x.e))
ProductInRange == /\ Product.cls = "fin"
                  /\ FGeq(Product, MinOf(call.ty)) /\ FLeq(Product, MaxOf(call.ty))
ProductAbove == \/ Product.cls = "inf" /\ Product.m > 0
                \/ Product.cls = "fin" /\ ~FLeq(Product, MaxOf(call.ty))
ProductBelow == \/ Product.cls = "inf" /\ Product.m < 0
                \/ Product.cls = "fin" /\ ~FGeq(Product, MinOf(call.ty))
\* r is the finite x with its fractional part discarded (toward zero)
IsTruncation(x, r) ==
    IF x.m >= 0 THEN r >= 0 /\ FGeq(x, r) /\ ~FGeq(x, r + 1)
    ELSE r <= 0 /\ FLeq(x, r) /\ ~FLeq(x, r - 1)

\* C9 as stated: for i16 and u16, amplify narrows the product by truncation,
\* not by rounding and not by saturating: a product inside the type's range
\* gives the product with its fractional part discarded, and a product outside
\* the range is not clamped to the type's minimum or maximum.
C9_Original ==
    AmplifyDone =>
        /\ ProductInRange => IsTruncation(Product, ret.val)
        /\ ProductAbove => ret.val # MaxOf(call.ty)
        /\ ProductBelow => ret.val # MinOf(call.ty)

\* C9 as amended: for i16 and u16, amplify narrows the product by truncation
\* toward zero when the product lies inside the type's range, and by
\* saturation otherwise: a product above the range gives the type's maximum,
\* one below it the type's minimum, and a NaN product gives 0.
C9_AmplifyTruncatesAndSaturates ==
    AmplifyDone =>
        /\ ProductInRange => IsTruncation(Product, ret.val)
        /\ ProductAbove => ret.val = MaxOf(call.ty)
        /\ ProductBelow => ret.val = MinOf(call.ty)
        /\ Product.cls = "nan" => ret.val = 0

C9_Witness ==
    /\ AmplifyDone /\ call.ty = "i16"
    /\ call.a = I16_MIN /\ call.value = F32(3, -1)
    /\ ProductBelow
    /\ ret.val = I16_MIN


---------------------------------------------------------------------------
(* Specification Spec: a DataConverter<I, O> over a source iterator.       *)
(* The source is an iterator over `items` whose position is `input`; an    *)
(* "exact" source reports its remaining length exactly (a slice or Vec     *)
(* iterator), a "filtered" one only an upper bound (as Filter does).       *)

\* the longest source, and the most pulls (adapter and direct) in a run
MaxLen == 3
MaxPulls == 5

ItemsOf(ty) == IF ty = "i16" THEN {0, 16384, -32768} ELSE {0, 32768, 65535}
Convs == {<<"i16", "f32">>, <<"u16", "f32">>, <<"i16", "i16">>}
SeqsUpTo(S, n) == UNION {[1 .. k -> S] : k \in 0 .. n}

\* an Option<usize> of None
NoneUsize == 0 - 1

\* O::from_sample(s) for s of representation cv[1] and O = cv[2]: the
\* normalized float of s for O = f32, s itself for O = I
from_sample(s, cv) ==
    CASE cv = <<"i16", "f32">> -> [val |-> 0, f |-> to_f32_i16(s)]
      [] cv = <<"u16", "f32">> -> [val |-> 0, f |-> to_f32_u16(s)]
      [] OTHER -> [val |-> s, f |-> NoF32]

\* the source's next(): the item at the position, if any, and the position
\* after the call; calls counts the calls of the source's next()
src_next(its, pos) ==
    IF pos < Len(its)
    THEN [pos |-> pos + 1, some |-> TRUE, val |-> its[pos + 1], calls |-> 1]
    ELSE [pos |-> pos, some |-> FALSE, val |-> 0, calls |-> 1]

\* the source's size_hint()
src_size_hint(k, its, pos) ==
    IF k = "exact" THEN [lower |-> Len(its) - pos, upper |-> Len(its) - pos]
    ELSE [lower |-> 0, upper |-> Len(its) - pos]

\* DataConverter::next as it would be were it to pull one item ahead
next_lookahead(its, pos, cv) ==
    LET r == src_next(its, pos)
        ahead == src_next(its, r.pos)
    IN  [pos |-> ahead.pos, some |-> r.some,
         out |-> IF r.some THEN from_sample(r.val, cv) ELSE [val |-> 0, f |-> NoF32],
         calls |-> r.calls + ahead.calls]

\* DataConverter::next: self.input.next().map(|s| from_sample(s))
next(its, pos, cv) ==
    LET r == src_next(its, pos)
    IN  [pos |-> r.pos, some |-> r.some,
         out |-> IF r.some THEN from_sample(r.val, cv) ELSE [val |-> 0, f |-> NoF32],
         calls |-> r.calls]

\* Iterator::size_hint as the trait defaults it
size_hint_default(k, its, pos) == [lower |-> 0, upper |-> NoneUsize]

\* DataConverter::size_hint: self.input.size_hint()
size_hint(k, its, pos) == src_size_hint(k, its, pos)

\* inner_mut as it would be were it to hand out a copy of the source: a pull
\* on the copy leaves the adapter's source where it was
inner_mut_next_copy(its, pos) == [src_next(its, pos) EXCEPT !.pos = pos]

\* a pull through inner_mut(): next() on &mut self.input
inner_mut_next(its, pos) == src_next(its, pos)

Init ==
    /\ conv \in Convs
    /\ kind \in {"exact", "filtered"}
    /\ items \in SeqsUpTo(ItemsOf(conv[1]), MaxLen)
    /\ input = 0
    /\ phase = "source"
    /\ delivered = <<>>
    /\ srcCalls = 0
    /\ ops = [next |-> 0, raw |-> 0]
    /\ last = NoLast
    /\ call = NoCall /\ ret = NoRet /\ pc = "idle"

CanPull == ops.next + ops.raw < MaxPulls

\* a direct pull on the source, which is not (or no longer) wrapped
SourceNext ==
    /\ phase \in {"source", "recovered"}
    /\ CanPull
    /\ LET r == src_next(items, input)
       IN  /\ input' = r.pos
           /\ srcCalls' = srcCalls + r.calls
           /\ delivered' = IF r.some
                           THEN Append(delivered, [via |-> "raw", val |-> r.val, f |-> NoF32])
                           ELSE delivered
           /\ last' = [NoLast EXCEPT !.op = "source_next", !.some = r.some, !.val = r.val]
    /\ ops' = [ops EXCEPT !.raw = @ + 1]
    /\ UNCHANGED <<items, kind, conv, phase, sampleVars>>

\* DataConverter::new(source)
New ==
    /\ phase = "source"
    /\ phase' = "adapter"
    /\ last' = [NoLast EXCEPT !.op = "new"]
    /\ UNCHANGED <<items, kind, conv, input, delivered, srcCalls, ops, sampleVars>>

\* converter.next()
Next_ ==
    /\ phase = "adapter"
    /\ CanPull
    /\ LET r == next(items, input, conv)
       IN  /\ input' = r.pos
           /\ srcCalls' = srcCalls + r.calls
           /\ delivered' = IF r.some
                           THEN Append(delivered,
                                       [via |-> "adapter", val |-> r.out.val, f |-> r.out.f])
                           ELSE delivered
           /\ last' = [NoLast EXCEPT !.op = "next", !.some = r.some,
                                     !.val = r.out.val, !.f = r.out.f]
    /\ ops' = [ops EXCEPT !.next = @ + 1]
    /\ UNCHANGED <<items, kind, conv, phase, sampleVars>>

\* converter.inner_mut().next()
InnerMutNext ==
    /\ phase = "adapter"
    /\ CanPull
    /\ LET r == inner_mut_next(items, input)
       IN  /\ input' = r.pos
           /\ srcCalls' = srcCalls + r.calls
           /\ delivered' = IF r.some
                           THEN Append(delivered, [via |-> "raw", val |-> r.val, f |-> NoF32])
                           ELSE delivered
           /\ last' = [NoLast EXCEPT !.op = "inner_mut_next", !.some = r.some, !.val = r.val]
    /\ ops' = [ops EXCEPT !.raw = @ + 1]
    /\ UNCHANGED <<items, kind, conv, phase, sampleVars>>

\* converter.size_hint()
SizeHint ==
    /\ phase = "adapter"
    /\ LET h == size_hint(kind, items, input)
       IN  last' = [NoLast EXCEPT !.op = "size_hint", !.lower = h.lower, !.upper = h.upper]
    /\ UNCHANGED <<items, kind, conv, input, phase, delivered, srcCalls, ops, sampleVars>>

\* converter.len(), which exists when the source is an ExactSizeIterator:
\* the lower bound of size_hint(), asserted equal to the upper one
ExactLen ==
    /\ phase = "adapter"
    /\ kind = "exact"
    /\ LET h == size_hint(kind, items, input)
       IN  last' = [NoLast EXCEPT !.op = IF h.upper = h.lower THEN "len" ELSE "len_panic",
                                  !.lower = h.lower, !.upper = h.upper]
    /\ UNCHANGED <<items, kind, conv, input, phase, delivered, srcCalls, ops, sampleVars>>

\* converter.into_inner()
IntoInner ==
    /\ phase = "adapter"
    /\ phase' = "recovered"
    /\ last' = [NoLast EXCEPT !.op = "into_inner"]
    /\ UNCHANGED <<items, kind, conv, input, delivered, srcCalls, ops, sampleVars>>

Next ==
    \/ SourceNext
    \/ New
    \/ Next_
    \/ InnerMutNext
    \/ SizeHint
    \/ ExactLen
    \/ IntoInner

Spec == Init /\ [][Next]_vars


---------------------------------------------------------------------------
(* Properties of the DataConverter (Spec).                                 *)

\* the k-th source sample as the adapter / a direct pull hands it out
Converted(k) == [via |-> "adapter", val |-> from_sample(items[k], conv).val,
                 f |-> from_sample(items[k], conv).f]
Raw(k) == [via |-> "raw", val |-> items[k], f |-> NoF32]

\* C1: a DataConverter over a source of N samples, pulled only through
\* next(): the first N calls yield the conversions of the N samples in source
\* order (none skipped, none duplicated), and every later call yields None.
C1_OneToOne ==
    (phase = "adapter" /\ ops.raw = 0) =>
        /\ Len(delivered) = Min(ops.next, Len(items))
        /\ \A k \in 1 .. Len(delivered) : delivered[k] = Converted(k)
        /\ last.op = "next" =>
              /\ last.some = (ops.next <= Len(items))
              /\ last.some => /\ last.val = Converted(ops.next).val
                              /\ last.f = Converted(ops.next).f

\* the spec's end-to-end example, then a pull past the end
C1_Witness ==
    /\ phase = "adapter" /\ ops.raw = 0
    /\ conv = <<"i16", "f32">>
    /\ items = <<0, 16384, -32768>>
    /\ delivered = <<[via |-> "adapter", val |-> 0, f |-> F32(0, 0)],
                     [via |-> "adapter", val |-> 0, f |-> F32(1, -1)],
                     [via |-> "adapter", val |-> 0, f |-> F32(-1, 0)]>>
    /\ ops.next = 5
    /\ last.op = "next" /\ ~last.some

\* C2: whatever next() calls and direct pulls through inner_mut() came before,
\* size_hint() of the adapter is the source's size_hint() at that moment: its
\* upper bound is the number of items not yet handed out, and so is its lower
\* bound (and len()) when the source reports an exact length; a source that
\* reports no lower bound gives the adapter none.
C2_SizeHintIsSources ==
    last.op \in {"size_hint", "len", "len_panic"} =>
        /\ last.op # "len_panic"
        /\ last.upper = Len(items) - Len(delivered)
        /\ kind = "exact" => last.lower = Len(items) - Len(delivered)
        /\ kind = "filtered" => last.lower = 0

C2_Witness ==
    /\ last.op = "size_hint" /\ kind = "exact"
    /\ Len(items) = 3
    /\ ops.next = 1 /\ ops.raw = 1
    /\ last.lower = 1 /\ last.upper = 1

\* C10: the adapter neither reads ahead nor buffers: the source's next() has
\* been called once per next() of the adapter and once per direct pull (new,
\* size_hint and into_inner call it never); the items handed out so far are
\* the source's first items, each once and in order, converted when they came
\* through the adapter and raw when pulled directly; and the source (also as
\* into_inner returns it) stands at its first item not yet handed out.
C10_NoLookahead ==
    /\ srcCalls = ops.next + ops.raw
    /\ input = Len(delivered)
    /\ Len(delivered) <= Len(items)
    /\ \A k \in 1 .. Len(delivered) :
          delivered[k] = IF delivered[k].via = "adapter" THEN Converted(k) ELSE Raw(k)

\* adapter, inner_mut, adapter, then into_inner and a direct pull
C10_Witness ==
    /\ phase = "recovered"
    /\ conv = <<"u16", "f32">>
    /\ Len(items) = 3
    /\ Len(delivered) = 3
    /\ delivered[1].via = "adapter" /\ delivered[2].via = "raw"
    /\ delivered[3] = Raw(3)
    /\ last.op = "source_next" /\ last.some
    /\ ops.next = 1 /\ ops.raw = 2

=============================================================================
